---------------------------- MODULE Spec2Model ----------------------------
(***************************************************************************)
(* Model of the amortization engine of src/main.py (loan-emi-planner):     *)
(* normalize_rate_schedule, get_rate_for_month, calculate_emi,             *)
(* months_for_fixed_emi, the monthly loops of build_schedule_with_prepay   *)
(* and build_schedule_fixed_emi, compute_summary and the page's rate       *)
(* simulator.                                                              *)
(*                                                                         *)
(* Numbers.  The program computes in binary floating point and reports     *)
(* amounts with round(x, 2).  Here an amount is an integer number of       *)
(* 1/10000 currency units, so that a cent is 100 units and the engine's    *)
(* 0.005 threshold is 50 units; every product or quotient of the program   *)
(* is rounded to the nearest unit (RoundDiv).  The program's 1e-12 guards  *)
(* are below this resolution and compare as 0.  An annual rate is an       *)
(* integer number of percent; the monthly rate rate/100/12 is kept as the  *)
(* reduced fraction RNum/RDen.                                             *)
(***************************************************************************)
EXTENDS Integers, Sequences, FiniteSets

VARIABLES
    call,             \* the function that runs
    P,                \* principal
    annual_rate,      \* fallback annual rate (percent)
    tenure_months,
    prepay_amount,
    prepay_month,     \* NoMonth for None
    mode,             \* "keep_emi" | "keep_tenure" | "hybrid" | other
    hybrid_pct,       \* hybrid_frac, in percent (the sidebar's hybrid_pct / 100.0)
    rate_schedule,    \* Optional[List[Dict]]: None is <<>>, a list l is <<l>>
    auto_recompute_on_rate_change,
    rs,               \* the normalized schedule
    emi,
    balance,
    month,
    rows,             \* the ledger (in SpecBound: its last rows)
    cum_interest,
    cum_principal,
    pc,               \* "start" | "loop" | "done" | "summarized"
    term,             \* why the run ended: "none" | "empty" | "paid" | "settle" | "maxiter"
    renorm,           \* normalize_rate_schedule applied to its own output
    qmonth,           \* a queried month
    qrate,            \* get_rate_for_month's answer for qmonth
    summary,          \* compute_summary's result for the ledger (<<>> before the call)
    sim_month,        \* the simulator's month (NoMonth for None)
    sim_new_rate,     \* the simulator's rate
    sim_rs,           \* the simulator's schedule
    fixed_emi,        \* the installment given to build_schedule_fixed_emi
    months_fixed      \* months_for_fixed_emi's answer for P, annual_rate, fixed_emi

vars == <<call, P, annual_rate, tenure_months, prepay_amount, prepay_month, mode,
          hybrid_pct, rate_schedule, auto_recompute_on_rate_change, rs, emi,
          balance, month, rows, cum_interest, cum_principal, pc, term,
          renorm, qmonth, qrate, summary, sim_month, sim_new_rate, sim_rs,
          fixed_emi, months_fixed>>

---------------------------------------------------------------------------
(* Bounds of the model *)

MaxTenure == 3

MaxRawLen == 3

MaxQueryMonth == 4

---------------------------------------------------------------------------
(* Program constants, in model units *)

\* round(x, 2): two decimals, i.e. a multiple of 100 units
Cent == 100

\* the 0.005 pay-off threshold of the loop
HalfCent == 50

\* prepay_month = None: no month of the loop (which counts from 1) equals it
NoMonth == 0

\* the floor of max_iter
MinMaxIter == 10000

---------------------------------------------------------------------------
(* Arithmetic *)

Max(a, b) == IF a >= b THEN a ELSE b

Min(a, b) == IF a <= b THEN a ELSE b

Abs(a) == IF a >= 0 THEN a ELSE -a

RECURSIVE GCD(_, _)
GCD(a, b) == IF b = 0 THEN a ELSE GCD(b, a % b)

RECURSIVE Pow(_, _)
Pow(b, n) == IF n <= 0 THEN 1 ELSE b * Pow(b, n - 1)

\* a / b for a >= 0, b > 0, rounded to the nearest unit
RoundDiv(a, b) == (a \div b) + (IF 2 * (a % b) >= b THEN 1 ELSE 0)

\* round(x, 2): the nearest multiple of a cent, a tie going to the even cent
Round2(x) ==
    LET q == x \div Cent
        r == x % Cent
    IN  IF 2 * r < Cent THEN q * Cent
        ELSE IF 2 * r > Cent THEN (q + 1) * Cent
        ELSE IF q % 2 = 0 THEN q * Cent ELSE (q + 1) * Cent

\* the monthly rate (annual_rate_percent / 100.0) / 12.0 as a reduced fraction
RNum(rate) == IF rate = 0 THEN 0 ELSE rate \div GCD(rate, 1200)

RDen(rate) == IF rate = 0 THEN 1 ELSE 1200 \div GCD(rate, 1200)

\* x * r for the monthly rate r of an annual rate
MulRate(x, rate) == RoundDiv(x * RNum(rate), RDen(rate))

---------------------------------------------------------------------------
(* Rate schedules.  A schedule entry is a Python value: a dict with a      *)
(* "month" and an "annual_rate", or something else (isdict FALSE).  A      *)
(* field is a number ("num"), a numeric string ("str", which int() and     *)
(* float() convert), a non-numeric string ("text") or None ("none"); the   *)
(* last two make int() or float() raise.                                   *)

Num(n) == [k |-> "num", v |-> n]

Entry(m, r) == [isdict |-> TRUE, month |-> Num(m), annual_rate |-> Num(r)]

\* int(x) or float(x) returns instead of raising
Converts(x) == x.k \in {"num", "str"}

\* Optional[List]: None, or a list
None == <<>>

Some(l) == <<l>>

\* the body of the for loop: the entry is appended (converted) or skipped
Keeps(ent) ==
    /\ ent.isdict
    /\ Converts(ent.month)
    /\ Converts(ent.annual_rate)
    /\ ent.month.v >= 1

RECURSIVE Cleaned(_)
Cleaned(l) ==
    IF l = <<>> THEN <<>>
    ELSE LET ent == Head(l)
         IN  IF Keeps(ent)
             THEN <<Entry(ent.month.v, ent.annual_rate.v)>> \o Cleaned(Tail(l))
             ELSE Cleaned(Tail(l))

\* InsertByMonth putting e before the entries of its own month
RECURSIVE InsertByMonth_Unstable(_, _)
InsertByMonth_Unstable(l, e) ==
    IF l = <<>> THEN <<e>>
    ELSE IF Head(l).month.v < e.month.v
         THEN <<Head(l)>> \o InsertByMonth_Unstable(Tail(l), e)
         ELSE <<e>> \o l

\* e put into a list sorted by month, after the entries of its own month
RECURSIVE InsertByMonth(_, _)
InsertByMonth(l, e) ==
    IF l = <<>> THEN <<e>>
    ELSE IF Head(l).month.v <= e.month.v
         THEN <<Head(l)>> \o InsertByMonth(Tail(l), e)
         ELSE <<e>> \o l

\* sorted(cleaned, key=month): a stable sort
RECURSIVE SortFrom(_, _)
SortFrom(acc, l) ==
    IF l = <<>> THEN acc ELSE SortFrom(InsertByMonth(acc, Head(l)), Tail(l))

SortedByMonth(l) == SortFrom(<<>>, l)

\* normalize_rate_schedule putting a month-1 entry in front whatever the
\* first month is
normalize_AlwaysInserts(rate_schedule_input) ==
    IF rate_schedule_input = None \/ rate_schedule_input[1] = <<>> THEN <<>>
    ELSE LET cleaned_sorted == SortedByMonth(Cleaned(rate_schedule_input[1]))
         IN  IF cleaned_sorted = <<>> THEN <<>>
             ELSE <<Entry(1, cleaned_sorted[1].annual_rate.v)>> \o cleaned_sorted

normalize_rate_schedule(rate_schedule_input) ==
    IF rate_schedule_input = None \/ rate_schedule_input[1] = <<>> THEN <<>>
    ELSE LET cleaned_sorted == SortedByMonth(Cleaned(rate_schedule_input[1]))
         IN  IF cleaned_sorted = <<>> THEN <<>>
             ELSE IF cleaned_sorted[1].month.v # 1
                  THEN <<Entry(1, cleaned_sorted[1].annual_rate.v)>> \o cleaned_sorted
                  ELSE cleaned_sorted

\* ScanApplicable taking only the entries before the queried month
RECURSIVE ScanApplicable_Strict(_, _, _, _)
ScanApplicable_Strict(sched, i, m, applicable) ==
    IF i > Len(sched) THEN applicable
    ELSE LET ent == sched[i]
         IN  IF ~ent.isdict \/ ~Converts(ent.month)
             THEN ScanApplicable_Strict(sched, i + 1, m, applicable)
             ELSE IF ent.month.v < m
                  THEN ScanApplicable_Strict(sched, i + 1, m, i)
                  ELSE applicable

\* the for loop of get_rate_for_month from entry i on: the index of the
\* applicable entry, 0 for none
RECURSIVE ScanApplicable(_, _, _, _)
ScanApplicable(sched, i, m, applicable) ==
    IF i > Len(sched) THEN applicable
    ELSE LET ent == sched[i]
         IN  IF ~ent.isdict \/ ~Converts(ent.month)
             THEN ScanApplicable(sched, i + 1, m, applicable)
             ELSE IF ent.month.v <= m
                  THEN ScanApplicable(sched, i + 1, m, i)
                  ELSE applicable

get_rate_for_month(sched, m, fallback_rate) ==
    IF sched = <<>> THEN fallback_rate
    ELSE LET applicable == ScanApplicable(sched, 1, m, 0)
         IN  IF applicable # 0 THEN sched[applicable].annual_rate.v
             ELSE fallback_rate

---------------------------------------------------------------------------
(* The EMI calculator *)

\* calculate_emi with the zero-rate branch returning the principal undivided
calculate_emi_Undivided(Pr, annual_rate_percent, tenure) ==
    LET n == RNum(annual_rate_percent)
        d == RDen(annual_rate_percent)
        N == tenure
        pow_num == Pow(d + n, N)
        pow_den == Pow(d, N)
    IN  IF N <= 0 THEN 0
        ELSE IF n = 0 THEN Pr
        ELSE RoundDiv(Pr * n * pow_num, d * (pow_num - pow_den))

\* calculate_emi with the - 1 of the denominator left out
calculate_emi_NoMinusOne(Pr, annual_rate_percent, tenure) ==
    LET n == RNum(annual_rate_percent)
        d == RDen(annual_rate_percent)
        N == tenure
    IN  IF N <= 0 THEN 0
        ELSE IF n = 0 THEN RoundDiv(Pr, N)
        ELSE RoundDiv(Pr * n, d)

calculate_emi(Pr, annual_rate_percent, tenure) ==
    LET n == RNum(annual_rate_percent)
        d == RDen(annual_rate_percent)
        N == tenure
        pow_num == Pow(d + n, N)      \* (1 + r) ** N is pow_num / pow_den
        pow_den == Pow(d, N)
    IN  IF N <= 0 THEN 0
        ELSE IF n = 0 THEN RoundDiv(Pr, N)
        ELSE RoundDiv(Pr * n * pow_num, d * (pow_num - pow_den))

\* months_for_fixed_emi's answers.  None is NoMonths; a number N is kept as
\* what the function computes it from: val and the monthly rate r, N being
\* val[1] / val[2] at a zero rate and ln(val[1] / val[2]) / ln(1 + r[1] / r[2])
\* otherwise.  Uncalled stands for the time before the call.
Uncalled == [k |-> "uncalled", val |-> <<0, 1>>, r |-> <<0, 1>>]

NoMonths == [k |-> "none", val |-> <<0, 1>>, r |-> <<0, 1>>]

Months(val, r) == [k |-> "num", val |-> val, r |-> r]

\* months_for_fixed_emi with its first test strict (emi < r * P)
months_for_fixed_emi_Strict(Pr, annual_rate_percent, e) ==
    LET n == RNum(annual_rate_percent)
        d == RDen(annual_rate_percent)
        rP == MulRate(Pr, annual_rate_percent)
    IN  IF e < rP THEN NoMonths
        ELSE IF n = 0 THEN Months(<<Pr, e>>, <<0, 1>>)
        ELSE IF e <= 0 THEN NoMonths
        ELSE Months(<<e, e - rP>>, <<n, d>>)

months_for_fixed_emi(Pr, annual_rate_percent, e) ==
    LET n == RNum(annual_rate_percent)
        d == RDen(annual_rate_percent)
        rP == MulRate(Pr, annual_rate_percent)
    IN  IF e <= rP THEN NoMonths
        ELSE IF n = 0 THEN Months(<<Pr, e>>, <<0, 1>>)
        ELSE IF e <= 0 THEN NoMonths          \* val = emi / (emi - r * P) <= 0
        ELSE Months(<<e, e - rP>>, <<n, d>>)

---------------------------------------------------------------------------
(* build_schedule_with_prepay.  `in' is the call's arguments, `s' the      *)
(* locals of the function: rs, emi, balance, month, rows, cum_interest,    *)
(* cum_principal, and where it stands (pc, term).                          *)

\* recompute_emi_for_balance spreading the balance over the whole tenure
recompute_emi_WholeTenure(in, sched, rem_balance, rem_months, current_month_index) ==
    IF rem_months <= 0 THEN rem_balance
    ELSE calculate_emi(rem_balance,
                       get_rate_for_month(sched, current_month_index + 1, in.annual_rate),
                       in.tenure_months)

\* recompute_emi_for_balance reading the rate of month current_month_index
recompute_emi_PreviousRate(in, sched, rem_balance, rem_months, current_month_index) ==
    IF rem_months <= 0 THEN rem_balance
    ELSE calculate_emi(rem_balance,
                       get_rate_for_month(sched, current_month_index, in.annual_rate),
                       rem_months)

recompute_emi_for_balance(in, sched, rem_balance, rem_months, current_month_index) ==
    IF rem_months <= 0 THEN rem_balance
    ELSE calculate_emi(rem_balance,
                       get_rate_for_month(sched, current_month_index + 1, in.annual_rate),
                       rem_months)

max_iter(in) == Max(in.tenure_months * 10, MinMaxIter)

rate_change_months(sched) == {sched[i].month.v : i \in 1..Len(sched)}

\* LoopGuard letting a pass start at max_iter
LoopGuard_Inclusive(in, bal, m) == bal > HalfCent /\ m <= max_iter(in)

\* the while test
LoopGuard(in, bal, m) == bal > HalfCent /\ m < max_iter(in)

\* ApplyPrepay with the sign of a keep_emi prepayment turned
ApplyPrepay_Added(in, closing_before_prepay) ==
    LET room == Max(0, closing_before_prepay)
    IN  IF in.mode = "keep_tenure"
        THEN [tenor |-> 0, emi |-> Min(in.prepay_amount, room)]
        ELSE [tenor |-> 0 - Min(in.prepay_amount, room), emi |-> 0]

\* ApplyPrepay with the hybrid split applying its EMI part first
ApplyPrepay_EmiFirst(in, closing_before_prepay) ==
    LET room == Max(0, closing_before_prepay)
    IN  IF in.mode = "keep_tenure"
        THEN [tenor |-> 0, emi |-> Min(in.prepay_amount, room)]
        ELSE IF in.mode = "hybrid"
        THEN LET frac == Max(0, Min(100, in.hybrid_pct))
                 amt_for_emi == RoundDiv(in.prepay_amount * frac, 100)
                 amt_for_tenor == RoundDiv(in.prepay_amount * (100 - frac), 100)
                 for_emi == Min(amt_for_emi, room)
                 interim == closing_before_prepay - for_emi
             IN  [tenor |-> Min(amt_for_tenor, Max(0, interim)), emi |-> for_emi]
        ELSE [tenor |-> Min(in.prepay_amount, room), emi |-> 0]

\* ApplyPrepay without the cap at the balance the month leaves
ApplyPrepay_Uncapped(in, closing_before_prepay) ==
    IF in.mode = "keep_tenure"
    THEN [tenor |-> 0, emi |-> in.prepay_amount]
    ELSE IF in.mode = "hybrid"
    THEN LET frac == Max(0, Min(100, in.hybrid_pct))
         IN  [tenor |-> RoundDiv(in.prepay_amount * (100 - frac), 100),
              emi |-> RoundDiv(in.prepay_amount * frac, 100)]
    ELSE [tenor |-> in.prepay_amount, emi |-> 0]

\* the split of a prepayment that falls in this month: [tenor, emi]
ApplyPrepay(in, closing_before_prepay) ==
    LET room == Max(0, closing_before_prepay)
    IN  IF in.mode = "keep_emi"
        THEN [tenor |-> Min(in.prepay_amount, room), emi |-> 0]
        ELSE IF in.mode = "keep_tenure"
        THEN [tenor |-> 0, emi |-> Min(in.prepay_amount, room)]
        ELSE IF in.mode = "hybrid"
        THEN LET frac == Max(0, Min(100, in.hybrid_pct))
                 amt_for_emi == RoundDiv(in.prepay_amount * frac, 100)
                 amt_for_tenor == RoundDiv(in.prepay_amount * (100 - frac), 100)
                 for_tenor == Min(amt_for_tenor, room)
                 interim == closing_before_prepay - for_tenor
             IN  [tenor |-> for_tenor, emi |-> Min(amt_for_emi, Max(0, interim))]
        ELSE [tenor |-> Min(in.prepay_amount, room), emi |-> 0]

\* does a prepayment fall in month m
PrepayDue(in, m) ==
    in.prepay_amount > 0 /\ in.prepay_month # NoMonth /\ in.prepay_month = m

\* MonthRow with the closing balance taken before the prepayment
MonthRow_BeforePrepay(m, opening, emi_actual, interest, principal_component, pre, closing_after_prepay, curr_annual_rate, cumi, cump) ==
    [Month |-> m,
     Opening |-> Round2(opening),
     EMI |-> Round2(emi_actual),
     Interest |-> Round2(interest),
     Principal |-> Round2(principal_component),
     PrepayTenor |-> Round2(pre.tenor),
     PrepayEMI |-> Round2(pre.emi),
     PrepayTotal |-> Round2(pre.tenor + pre.emi),
     Closing |-> Round2(opening - principal_component),
     Rate |-> curr_annual_rate,
     CumInterest |-> Round2(cumi),
     CumPrincipal |-> Round2(cump)]

\* the row appended for a month of the loop
MonthRow(m, opening, emi_actual, interest, principal_component, pre, closing_after_prepay, curr_annual_rate, cumi, cump) ==
    [Month |-> m,
     Opening |-> Round2(opening),
     EMI |-> Round2(emi_actual),
     Interest |-> Round2(interest),
     Principal |-> Round2(principal_component),
     PrepayTenor |-> Round2(pre.tenor),
     PrepayEMI |-> Round2(pre.emi),
     PrepayTotal |-> Round2(pre.tenor + pre.emi),
     Closing |-> Round2(closing_after_prepay),
     Rate |-> curr_annual_rate,
     CumInterest |-> Round2(cumi),
     CumPrincipal |-> Round2(cump)]

\* LookaheadCond passing an installment equal to the interest
LookaheadCond_Strict(e, bal, next_rate) == e < MulRate(bal, next_rate) /\ bal > 0

\* the lookahead test after a month's row
LookaheadCond(e, bal, next_rate) == e <= MulRate(bal, next_rate) /\ bal > 0

\* LookaheadRow paying the balance and the interest off
LookaheadRow_PaysOff(m, e, bal, next_rate, cumi, cump) ==
    [Month |-> m + 1,
     Opening |-> Round2(bal),
     EMI |-> Round2(bal + MulRate(bal, next_rate)),
     Interest |-> Round2(MulRate(bal, next_rate)),
     Principal |-> Round2(bal),
     PrepayTenor |-> 0,
     PrepayEMI |-> 0,
     PrepayTotal |-> 0,
     Closing |-> 0,
     Rate |-> next_rate,
     CumInterest |-> Round2(cumi + MulRate(bal, next_rate)),
     CumPrincipal |-> Round2(cump + bal)]

\* LookaheadRow carrying the month of the row before it
LookaheadRow_SameMonth(m, e, bal, next_rate, cumi, cump) ==
    [Month |-> m,
     Opening |-> Round2(bal),
     EMI |-> Round2(e),
     Interest |-> Round2(MulRate(bal, next_rate)),
     Principal |-> 0,
     PrepayTenor |-> 0,
     PrepayEMI |-> 0,
     PrepayTotal |-> 0,
     Closing |-> Round2(bal + MulRate(bal, next_rate)),
     Rate |-> next_rate,
     CumInterest |-> Round2(cumi + MulRate(bal, next_rate)),
     CumPrincipal |-> Round2(cump)]

\* the row appended when the lookahead test holds
LookaheadRow(m, e, bal, next_rate, cumi, cump) ==
    [Month |-> m + 1,
     Opening |-> Round2(bal),
     EMI |-> Round2(e),
     Interest |-> Round2(MulRate(bal, next_rate)),
     Principal |-> 0,
     PrepayTenor |-> 0,
     PrepayEMI |-> 0,
     PrepayTotal |-> 0,
     Closing |-> Round2(bal + MulRate(bal, next_rate)),
     Rate |-> next_rate,
     CumInterest |-> Round2(cumi + MulRate(bal, next_rate)),
     CumPrincipal |-> Round2(cump)]

\* BeginState without the return on emi <= 0
BeginState_NoEmiTest(in) ==
    LET sched == IF in.rate_schedule # None
                 THEN normalize_rate_schedule(in.rate_schedule) ELSE <<>>
        initial_rate == get_rate_for_month(sched, 1, in.annual_rate)
        e == calculate_emi(in.P, initial_rate, in.tenure_months)
        stop == IF in.P <= HalfCent THEN "paid"
                ELSE IF ~LoopGuard(in, in.P, 0) THEN "maxiter"
                ELSE "none"
    IN  [rs |-> sched, emi |-> e, balance |-> in.P, month |-> 0, rows |-> <<>>,
         cum_interest |-> 0, cum_principal |-> 0,
         pc |-> IF stop = "none" THEN "loop" ELSE "done", term |-> stop]

\* the function up to its while loop
BeginState(in) ==
    LET sched == IF in.rate_schedule # None
                 THEN normalize_rate_schedule(in.rate_schedule) ELSE <<>>
        initial_rate == get_rate_for_month(sched, 1, in.annual_rate)
        e == calculate_emi(in.P, initial_rate, in.tenure_months)
        stop == IF e <= 0 THEN "empty"
                ELSE IF in.P <= HalfCent THEN "paid"
                ELSE IF ~LoopGuard(in, in.P, 0) THEN "maxiter"
                ELSE "none"
    IN  [rs |-> sched, emi |-> e, balance |-> in.P, month |-> 0, rows |-> <<>>,
         cum_interest |-> 0, cum_principal |-> 0,
         pc |-> IF stop = "none" THEN "loop" ELSE "done", term |-> stop]

\* RecomputeDue taking no month after the first
RecomputeDue_FirstMonthOnly(in, sched, m) ==
    in.auto_recompute_on_rate_change /\ m \in rate_change_months(sched) /\ m = 1

\* does the installment get recomputed at the start of month m
RecomputeDue(in, sched, m) ==
    in.auto_recompute_on_rate_change /\ m \in rate_change_months(sched) /\ m # 1

\* PrepayRecompute taking every hybrid prepayment, whatever its fraction
PrepayRecompute_AnyHybrid(in, applied_prepay) ==
    /\ applied_prepay > 0
    /\ (in.mode = "keep_tenure" \/ in.mode = "hybrid")

\* PrepayRecompute taking hybrid prepayments only
PrepayRecompute_HybridOnly(in, applied_prepay) ==
    /\ applied_prepay > 0
    /\ in.mode = "hybrid"
    /\ in.hybrid_pct > 0

\* PrepayRecompute taking a prepayment of any mode
PrepayRecompute_AnyMode(in, applied_prepay) == applied_prepay > 0

\* does the installment get recomputed after the month's prepayment
PrepayRecompute(in, applied_prepay) ==
    /\ applied_prepay > 0
    /\ (in.mode = "keep_tenure" \/ (in.mode = "hybrid" /\ in.hybrid_pct > 0))

\* one pass of the while loop, to the next while test or the return
Step(in, s) ==
    LET m == s.month + 1
        emi1 == IF RecomputeDue(in, s.rs, m)
                THEN recompute_emi_for_balance(in, s.rs, s.balance,
                                               Max(1, in.tenure_months - m + 1), m - 1)
                ELSE s.emi
        opening == s.balance
        curr_annual_rate == get_rate_for_month(s.rs, m, in.annual_rate)
        interest == MulRate(opening, curr_annual_rate)
        clamped == emi1 - interest > opening
        principal_component == IF clamped THEN opening ELSE emi1 - interest
        emi_actual == IF clamped THEN interest + principal_component ELSE emi1
        closing_before_prepay == opening - principal_component
        pre == IF PrepayDue(in, m) THEN ApplyPrepay(in, closing_before_prepay)
               ELSE [tenor |-> 0, emi |-> 0]
        applied_prepay == pre.tenor + pre.emi
        closing_after_prepay == Max(closing_before_prepay - applied_prepay, 0)
        cumi == s.cum_interest + interest
        cump == s.cum_principal + principal_component + applied_prepay
        row == MonthRow(m, opening, emi_actual, interest, principal_component, pre,
                        closing_after_prepay, curr_annual_rate, cumi, cump)
        bal == closing_after_prepay
        emi2 == IF PrepayRecompute(in, applied_prepay)
                THEN IF bal > 0
                     THEN recompute_emi_for_balance(in, s.rs, bal,
                                                    Max(1, in.tenure_months - m), m)
                     ELSE 0
                ELSE emi1
        next_rate == get_rate_for_month(s.rs, m + 1, in.annual_rate)
        settle == LookaheadCond(emi2, bal, next_rate)
        stop == IF settle THEN "settle"
                ELSE IF bal <= HalfCent THEN "paid"
                ELSE IF ~LoopGuard(in, bal, m) THEN "maxiter"
                ELSE "none"
    IN  [rs |-> s.rs, emi |-> emi2, balance |-> bal, month |-> m,
         rows |-> IF settle
                  THEN Append(Append(s.rows, row),
                              LookaheadRow(m, emi2, bal, next_rate, cumi, cump))
                  ELSE Append(s.rows, row),
         cum_interest |-> cumi, cum_principal |-> cump,
         pc |-> IF stop = "none" THEN "loop" ELSE "done", term |-> stop]

\* the whole call: the locals at the return
RECURSIVE Run(_, _)
Run(in, s) == IF s.pc = "done" THEN s ELSE Run(in, Step(in, s))

build_schedule_with_prepay(in) == Run(in, BeginState(in)).rows

\* compute_summary
RECURSIVE SumOf(_, _)
SumOf(l, f) == IF l = <<>> THEN 0 ELSE Head(l)[f] + SumOf(Tail(l), f)

RECURSIVE MaxMonth(_)
MaxMonth(l) == IF l = <<>> THEN 0 ELSE Max(Head(l).Month, MaxMonth(Tail(l)))

\* compute_summary leaving the prepayments out of total_principal
compute_summary_NoPrepay(df) ==
    IF df = <<>>
    THEN [months |-> 0, total_interest |-> 0, total_principal |-> 0, total_paid |-> 0]
    ELSE [months |-> MaxMonth(df),
          total_interest |-> SumOf(df, "Interest"),
          total_principal |-> SumOf(df, "Principal"),
          total_paid |-> SumOf(df, "EMI") + SumOf(df, "PrepayTotal")]

compute_summary(df) ==
    IF df = <<>>
    THEN [months |-> 0, total_interest |-> 0, total_principal |-> 0, total_paid |-> 0]
    ELSE [months |-> MaxMonth(df),
          total_interest |-> SumOf(df, "Interest"),
          total_principal |-> SumOf(df, "Principal") + SumOf(df, "PrepayTotal"),
          total_paid |-> SumOf(df, "EMI") + SumOf(df, "PrepayTotal")]

---------------------------------------------------------------------------
(* The inputs of the model *)

\* annual rates, in percent (monthly rates 0, 1/4 and 1)
Rates == {0, 300, 1200}

\* principals: 0, 0.01, 10.00 and 20.00
Principals == {0, 1 * Cent, 1000 * Cent, 2000 * Cent}

\* prepayment amounts: 1.00, 4.00, 6.66 (which leaves 10.00 over 3 months at
\* no interest a balance under a cent) and 30.00 (more than any balance)
PrepayAmounts == {100 * Cent, 400 * Cent, 666 * Cent, 3000 * Cent}

Modes == {"keep_emi", "keep_tenure", "hybrid"}

\* hybrid_frac, in percent: values of the slider, and values outside [0, 1]
\* that the engine clamps
HybridPcts == {-50, 0, 50, 100, 150}

\* the schedules given to the engine: none, one entry, or a month-1 entry
\* and one later change
EngineSchedules ==
    {None}
    \cup {Some(<<Entry(m, r)>>) : m \in 1..MaxTenure, r \in Rates}
    \cup {Some(<<Entry(1, r1), Entry(m, r2)>>) :
            r1 \in Rates, m \in 2..MaxTenure, r2 \in Rates}

\* the entries of a raw schedule: well-formed ones (two of them sharing a
\* month, one given as strings), and malformed ones
RawEntries ==
    {Entry(1, 300), Entry(2, 1200), Entry(2, 0), Entry(3, 300), Entry(-1, 500),
     Entry(0, 900),
     [isdict |-> TRUE, month |-> [k |-> "str", v |-> 3],
      annual_rate |-> [k |-> "str", v |-> 1200]],
     [isdict |-> TRUE, month |-> [k |-> "none", v |-> 0], annual_rate |-> Num(300)],
     [isdict |-> TRUE, month |-> Num(2), annual_rate |-> [k |-> "text", v |-> 0]],
     [isdict |-> FALSE, month |-> [k |-> "none", v |-> 0],
      annual_rate |-> [k |-> "none", v |-> 0]]}

RECURSIVE SeqsUpTo(_, _)
SeqsUpTo(S, n) ==
    IF n = 0 THEN {<<>>}
    ELSE LET shorter == SeqsUpTo(S, n - 1)
         IN  shorter \cup {Append(q, x) : q \in shorter, x \in S}

RawSchedules == {None} \cup {Some(l) : l \in SeqsUpTo(RawEntries, MaxRawLen)}

In ==
    [P |-> P, annual_rate |-> annual_rate, tenure_months |-> tenure_months,
     prepay_amount |-> prepay_amount, prepay_month |-> prepay_month,
     mode |-> mode, hybrid_pct |-> hybrid_pct, rate_schedule |-> rate_schedule,
     auto_recompute_on_rate_change |-> auto_recompute_on_rate_change]

Cur ==
    [rs |-> rs, emi |-> emi, balance |-> balance, month |-> month, rows |-> rows,
     cum_interest |-> cum_interest, cum_principal |-> cum_principal,
     pc |-> pc, term |-> term]

inputs == <<call, P, annual_rate, tenure_months, prepay_amount, prepay_month, mode,
            hybrid_pct, rate_schedule, auto_recompute_on_rate_change>>

locals == <<emi, balance, month, rows, cum_interest, cum_principal>>

queries == <<renorm, qmonth, qrate>>

simulator == <<sim_month, sim_new_rate, sim_rs>>

fixed == <<fixed_emi, months_fixed>>

Becomes(s) ==
    /\ rs' = s.rs
    /\ emi' = s.emi
    /\ balance' = s.balance
    /\ month' = s.month
    /\ rows' = s.rows
    /\ cum_interest' = s.cum_interest
    /\ cum_principal' = s.cum_principal
    /\ pc' = s.pc
    /\ term' = s.term

---------------------------------------------------------------------------
(* The engine: one call of build_schedule_with_prepay *)

\* the arguments the page passes (lines 698-717, 760-809): a fixed rate with
\* no schedule, or a schedule whose first rate is also the fallback; no
\* prepayment, or an amount, a month and a mode (the fraction with hybrid)
Init ==
    /\ call = "build_schedule_with_prepay"
    /\ P \in Principals
    /\ tenure_months \in 0..MaxTenure
    /\ rate_schedule \in EngineSchedules
    /\ annual_rate \in Rates
    /\ rate_schedule # None => annual_rate = rate_schedule[1][1].annual_rate.v
    /\ auto_recompute_on_rate_change \in BOOLEAN
    /\ \/ /\ prepay_amount = 0
          /\ prepay_month = NoMonth
          /\ mode = "keep_emi"
          /\ hybrid_pct = 0
       \/ /\ prepay_amount \in PrepayAmounts
          /\ prepay_month \in 1..MaxTenure
          /\ mode \in Modes
          /\ hybrid_pct \in HybridPcts
          /\ mode # "hybrid" => hybrid_pct = 0
    /\ rs = <<>>
    /\ emi = 0
    /\ balance = 0
    /\ month = 0
    /\ rows = <<>>
    /\ cum_interest = 0
    /\ cum_principal = 0
    /\ pc = "start"
    /\ term = "none"
    /\ renorm = <<>>
    /\ qmonth = 0
    /\ qrate = 0
    /\ summary = <<>>
    /\ sim_month = NoMonth
    /\ sim_new_rate = 0
    /\ sim_rs = <<>>
    /\ fixed_emi = 0
    /\ months_fixed = Uncalled

Begin ==
    /\ pc = "start"
    /\ Becomes(BeginState(In))
    /\ UNCHANGED <<inputs, queries, summary, simulator, fixed>>

Iterate ==
    /\ pc = "loop"
    /\ Becomes(Step(In, Cur))
    /\ UNCHANGED <<inputs, queries, summary, simulator, fixed>>

\* the page summarizes the ledger the call returned
Summarize ==
    /\ pc = "done"
    /\ summary' = compute_summary(rows)
    /\ pc' = "summarized"
    /\ UNCHANGED <<inputs, rs, locals, term, queries, simulator, fixed>>

Next == Begin \/ Iterate \/ Summarize

Spec == Init /\ [][Next]_vars

---------------------------------------------------------------------------
(* The rate schedule alone: normalize a raw schedule, normalize the       *)
(* result again, and query a month                                         *)

InitRS ==
    /\ call = "normalize_rate_schedule"
    /\ rate_schedule \in RawSchedules
    /\ annual_rate = 600
    /\ P = 0
    /\ tenure_months = 0
    /\ prepay_amount = 0
    /\ prepay_month = NoMonth
    /\ mode = "keep_emi"
    /\ hybrid_pct = 0
    /\ auto_recompute_on_rate_change = FALSE
    /\ rs = <<>>
    /\ emi = 0
    /\ balance = 0
    /\ month = 0
    /\ rows = <<>>
    /\ cum_interest = 0
    /\ cum_principal = 0
    /\ pc = "raw"
    /\ term = "none"
    /\ renorm = <<>>
    /\ qmonth = 0
    /\ qrate = 0
    /\ summary = <<>>
    /\ sim_month = NoMonth
    /\ sim_new_rate = 0
    /\ sim_rs = <<>>
    /\ fixed_emi = 0
    /\ months_fixed = Uncalled

Normalize ==
    /\ pc = "raw"
    /\ rs' = normalize_rate_schedule(rate_schedule)
    /\ pc' = "normalized"
    /\ UNCHANGED <<inputs, locals, term, queries, summary, simulator, fixed>>

Renormalize ==
    /\ pc = "normalized"
    /\ renorm' = normalize_rate_schedule(Some(rs))
    /\ pc' = "renormalized"
    /\ UNCHANGED <<inputs, locals, term, rs, qmonth, qrate, summary, simulator,
                   fixed>>

Query ==
    /\ pc = "renormalized"
    /\ \E m \in 0..MaxQueryMonth :
        /\ qmonth' = m
        /\ qrate' = get_rate_for_month(rs, m, annual_rate)
    /\ pc' = "queried"
    /\ UNCHANGED <<inputs, locals, term, rs, renorm, summary, simulator, fixed>>

\* the rates of the simulator: 0 and 7 percent
SimRates == {0, 700}

\* rs_input or [{"month": 1, "annual_rate": annual_rate}]
base_rs(rs_input, fallback_rate) ==
    IF rs_input = <<>> THEN <<Entry(1, fallback_rate)>> ELSE rs_input

\* rs_before keeping every entry of the base schedule
rs_before_All(base, sm) == base

\* [r for r in base_rs if r["month"] < sim_month]
RECURSIVE rs_before(_, _)
rs_before(base, sm) ==
    IF base = <<>> THEN <<>>
    ELSE IF Head(base).month.v < sm
         THEN <<Head(base)>> \o rs_before(Tail(base), sm)
         ELSE rs_before(Tail(base), sm)

\* the simulator's schedule
simulated_schedule(rs_input, fallback_rate, sm, new_rate) ==
    normalize_rate_schedule(
        Some(rs_before(base_rs(rs_input, fallback_rate), sm) \o <<Entry(sm, new_rate)>>))

\* the page builds the simulator's schedule from the normalized one
Simulate ==
    /\ pc = "normalized"
    /\ \E sm \in 1..MaxQueryMonth, new_rate \in SimRates :
        /\ sim_month' = sm
        /\ sim_new_rate' = new_rate
        /\ sim_rs' = simulated_schedule(rs, annual_rate, sm, new_rate)
    /\ pc' = "simulated"
    /\ UNCHANGED <<inputs, locals, term, rs, queries, summary, fixed>>

NextRS == Normalize \/ Renormalize \/ Query \/ Simulate

SpecRS == InitRS /\ [][NextRS]_vars

---------------------------------------------------------------------------
(* build_schedule_fixed_emi: the loop with an installment the caller gives *)

\* the default of the parameter max_months
max_months == 1000

\* installments given by the caller: 0, 2.50, 3.00, 10.001 (a tenth of a cent
\* above a month's interest on 10.00 at 1200 %) and 12.00
FixedEmis == {0, 250 * Cent, 300 * Cent, 1000 * Cent + 10, 1200 * Cent}

FixedIn ==
    [P |-> P, annual_rate |-> annual_rate, fixed_emi |-> fixed_emi,
     rate_schedule |-> rate_schedule]

\* NegAmRow with the closing balance left at the opening balance
NegAmRow_NoGrowth(in, m, opening, interest, curr_annual_rate, cumi, cump) ==
    [Month |-> m,
     Opening |-> Round2(opening),
     EMI |-> Round2(in.fixed_emi),
     Interest |-> Round2(interest),
     Principal |-> 0,
     PrepayTotal |-> 0,
     Closing |-> Round2(opening),
     Rate |-> curr_annual_rate,
     CumInterest |-> Round2(cumi + interest),
     CumPrincipal |-> Round2(cump)]

\* the row appended when the installment does not exceed the interest
NegAmRow(in, m, opening, interest, curr_annual_rate, cumi, cump) ==
    [Month |-> m,
     Opening |-> Round2(opening),
     EMI |-> Round2(in.fixed_emi),
     Interest |-> Round2(interest),
     Principal |-> 0,
     PrepayTotal |-> 0,
     Closing |-> Round2(opening + interest),
     Rate |-> curr_annual_rate,
     CumInterest |-> Round2(cumi + interest),
     CumPrincipal |-> Round2(cump)]

\* the row appended otherwise
FixedRow(m, opening, emi_actual, interest, principal_component, closing, curr_annual_rate, cumi, cump) ==
    [Month |-> m,
     Opening |-> Round2(opening),
     EMI |-> Round2(emi_actual),
     Interest |-> Round2(interest),
     Principal |-> Round2(principal_component),
     PrepayTotal |-> 0,
     Closing |-> Round2(Max(closing, 0)),
     Rate |-> curr_annual_rate,
     CumInterest |-> Round2(cumi),
     CumPrincipal |-> Round2(cump)]

\* the while test
FixedLoopGuard(bal, m) == bal > HalfCent /\ m < max_months

\* the function up to its while loop
FixedBeginState(in) ==
    LET sched == IF in.rate_schedule # None
                 THEN normalize_rate_schedule(in.rate_schedule) ELSE <<>>
        stop == IF in.P <= HalfCent THEN "paid"
                ELSE IF ~FixedLoopGuard(in.P, 0) THEN "maxiter"
                ELSE "none"
    IN  [rs |-> sched, emi |-> 0, balance |-> in.P, month |-> 0, rows |-> <<>>,
         cum_interest |-> 0, cum_principal |-> 0,
         pc |-> IF stop = "none" THEN "loop" ELSE "done", term |-> stop]

\* one pass of the while loop
FixedStep(in, s) ==
    LET m == s.month + 1
        opening == s.balance
        curr_annual_rate == get_rate_for_month(s.rs, m, in.annual_rate)
        interest == MulRate(opening, curr_annual_rate)
        nominal == in.fixed_emi - interest
        clamped == nominal > opening
        principal_component == IF clamped THEN opening ELSE nominal
        emi_actual == IF clamped THEN interest + principal_component
                      ELSE in.fixed_emi
        closing == opening - principal_component
        stop == IF closing <= HalfCent THEN "paid"
                ELSE IF ~FixedLoopGuard(closing, m) THEN "maxiter"
                ELSE "none"
    IN  IF nominal <= 0
        THEN [rs |-> s.rs, emi |-> s.emi, balance |-> opening + interest,
              month |-> m,
              rows |-> Append(s.rows,
                              NegAmRow(in, m, opening, interest, curr_annual_rate,
                                       s.cum_interest, s.cum_principal)),
              cum_interest |-> s.cum_interest + interest,
              cum_principal |-> s.cum_principal,
              pc |-> "done", term |-> "negam"]
        ELSE [rs |-> s.rs, emi |-> s.emi, balance |-> closing, month |-> m,
              rows |-> Append(s.rows,
                              FixedRow(m, opening, emi_actual, interest,
                                       principal_component, closing, curr_annual_rate,
                                       s.cum_interest + interest,
                                       s.cum_principal + principal_component)),
              cum_interest |-> s.cum_interest + interest,
              cum_principal |-> s.cum_principal + principal_component,
              pc |-> IF stop = "none" THEN "loop" ELSE "done", term |-> stop]

InitFE ==
    /\ call = "build_schedule_fixed_emi"
    /\ P \in Principals
    /\ rate_schedule \in EngineSchedules
    /\ annual_rate \in Rates
    /\ rate_schedule # None => annual_rate = rate_schedule[1][1].annual_rate.v
    /\ fixed_emi \in FixedEmis
    /\ months_fixed = Uncalled
    /\ tenure_months = 0
    /\ prepay_amount = 0
    /\ prepay_month = NoMonth
    /\ mode = "keep_emi"
    /\ hybrid_pct = 0
    /\ auto_recompute_on_rate_change = FALSE
    /\ rs = <<>>
    /\ emi = 0
    /\ balance = 0
    /\ month = 0
    /\ rows = <<>>
    /\ cum_interest = 0
    /\ cum_principal = 0
    /\ pc = "start"
    /\ term = "none"
    /\ renorm = <<>>
    /\ qmonth = 0
    /\ qrate = 0
    /\ summary = <<>>
    /\ sim_month = NoMonth
    /\ sim_new_rate = 0
    /\ sim_rs = <<>>

BeginFE ==
    /\ pc = "start"
    /\ Becomes(FixedBeginState(FixedIn))
    /\ UNCHANGED <<inputs, queries, summary, simulator, fixed>>

IterateFE ==
    /\ pc = "loop"
    /\ Becomes(FixedStep(FixedIn, Cur))
    /\ UNCHANGED <<inputs, queries, summary, simulator, fixed>>

\* a call of months_for_fixed_emi with the principal, the rate and the
\* installment of the ledger, before or after the ledger's call
MonthsFE ==
    /\ pc \in {"start", "done"}
    /\ months_fixed = Uncalled
    /\ months_fixed' = months_for_fixed_emi(P, annual_rate, fixed_emi)
    /\ UNCHANGED <<inputs, rs, locals, pc, term, queries, summary, simulator, fixed_emi>>

NextFE == BeginFE \/ IterateFE \/ MonthsFE

SpecFE == InitFE /\ [][NextFE]_vars

---------------------------------------------------------------------------
(* The loops at their bounds.  A call of build_schedule_with_prepay that   *)
(* makes max_iter passes writes a ledger of more than 10000 rows; it is    *)
(* followed here over its last passes.  The specification starts from the  *)
(* locals the call has LastPasses passes before max_iter, as the loop       *)
(* computes them from the arguments (Passes), with `rows' holding the last  *)
(* row written so far and the rows after it: the loop appends to the        *)
(* ledger and never reads it.  A call of build_schedule_fixed_emi is        *)
(* followed from its start.                                                 *)

\* the passes of the loop that are followed one by one
LastPasses == 4

\* n passes of the while loop from the locals s, or fewer if the call returns
RECURSIVE Passes(_, _, _)
Passes(in, s, n) ==
    IF n <= 0 \/ s.pc = "done" THEN s
    ELSE IF n = 1 THEN Step(in, s)
    ELSE Passes(in, Passes(in, s, n \div 2), n - (n \div 2))

\* the call's ledger: the rows at its return
Ledger(in) == Passes(in, BeginState(in), max_iter(in)).rows

\* a rate of 0 in month 1 and 1 % from month 2, alone or followed by 12 %
\* from a month on either side of max_iter = 12010
SlowSchedules ==
    {Some(<<Entry(1, 0), Entry(2, 1)>>),
     Some(<<Entry(1, 0), Entry(2, 1), Entry(12010, 12)>>),
     Some(<<Entry(1, 0), Entry(2, 1), Entry(12011, 12)>>)}

\* 6005.00 over 1201 months: an installment of 5.00, which a prepayment of
\* 0.10 in month 1 leaves 0.0001 above the interest of month 2
InitSlowLoan ==
    /\ call = "build_schedule_with_prepay"
    /\ P = 600500 * Cent
    /\ tenure_months = 1201
    /\ rate_schedule \in SlowSchedules
    /\ annual_rate = 0
    /\ auto_recompute_on_rate_change = FALSE
    /\ prepay_amount = 10 * Cent
    /\ prepay_month = 1
    /\ mode = "keep_emi"
    /\ hybrid_pct = 0
    /\ fixed_emi = 0
    /\ \E s \in {Passes(In, BeginState(In), max_iter(In) - LastPasses)} :
          /\ rs = s.rs
          /\ emi = s.emi
          /\ balance = s.balance
          /\ month = s.month
          /\ rows = SubSeq(s.rows, Len(s.rows), Len(s.rows))
          /\ cum_interest = s.cum_interest
          /\ cum_principal = s.cum_principal
          /\ pc = s.pc
          /\ term = s.term

\* 10.00, 10.01 or 20.00 at no interest against an installment of 0.01, or
\* 10.00 at 300 % against one of 2.50 or 3.00; at no interest, alone or
\* followed by 1200 % from a month on either side of max_months = 1000
InitSlowFixed ==
    /\ call = "build_schedule_fixed_emi"
    /\ P \in {1000 * Cent, 1001 * Cent, 2000 * Cent}
    /\ annual_rate \in {0, 300}
    /\ \/ /\ annual_rate = 0
          /\ fixed_emi = Cent
          /\ rate_schedule \in {None,
                                Some(<<Entry(1, 0), Entry(max_months, 1200)>>),
                                Some(<<Entry(1, 0), Entry(max_months + 1, 1200)>>)}
       \/ /\ annual_rate = 300
          /\ P = 1000 * Cent
          /\ fixed_emi \in {250 * Cent, 300 * Cent}
          /\ rate_schedule = None
    /\ tenure_months = 0
    /\ prepay_amount = 0
    /\ prepay_month = NoMonth
    /\ mode = "keep_emi"
    /\ hybrid_pct = 0
    /\ auto_recompute_on_rate_change = FALSE
    /\ rs = <<>>
    /\ emi = 0
    /\ balance = 0
    /\ month = 0
    /\ rows = <<>>
    /\ cum_interest = 0
    /\ cum_principal = 0
    /\ pc = "start"
    /\ term = "none"

InitBound ==
    /\ InitSlowLoan \/ InitSlowFixed
    /\ months_fixed = Uncalled
    /\ renorm = <<>>
    /\ qmonth = 0
    /\ qrate = 0
    /\ summary = <<>>
    /\ sim_month = NoMonth
    /\ sim_new_rate = 0
    /\ sim_rs = <<>>

\* a pass of the loop of the function that runs
IterateBound ==
    /\ pc = "loop"
    /\ IF call = "build_schedule_with_prepay"
       THEN Becomes(Step(In, Cur))
       ELSE Becomes(FixedStep(FixedIn, Cur))
    /\ UNCHANGED <<inputs, queries, summary, simulator, fixed>>

NextBound == BeginFE \/ IterateBound

SpecBound == InitBound /\ [][NextBound]_vars

---------------------------------------------------------------------------
(* Properties of the ledger *)

Last(l) == l[Len(l)]

Done == pc \in {"done", "summarized"}

\* the rate the lookahead reads after the row of the current month
NextRate == get_rate_for_month(rs, month + 1, annual_rate)

\* the lookahead test holds on the values the month's row left
LookaheadHolds == month >= 1 /\ LookaheadCond(emi, balance, NextRate)

\* C1 as stated: when the lookahead test holds after a month's row, one
\* further row pays off the balance and that month's interest in full, so
\* that the final row closes at 0, and the run ends.
C1_SettlesInFull ==
    LookaheadHolds =>
        /\ Done
        /\ Len(rows) = month + 1
        /\ Last(rows).Closing = 0
        /\ Last(rows).EMI = Round2(balance + MulRate(balance, NextRate))

\* C1, amended: when the lookahead test holds after a month's row (and only
\* then) the run ends with exactly one further row, for the next month,
\* which pays nothing off: principal paid 0, no prepayment, the unchanged
\* installment, the interest of that month on the balance, and a closing
\* balance of balance + interest, not below its opening balance.
C1_LookaheadRow ==
    /\ LookaheadHolds <=> term = "settle"
    /\ term = "settle" =>
        /\ Done
        /\ Len(rows) = month + 1
        /\ rows[month].Month = month
        /\ Last(rows).Month = month + 1
        /\ Last(rows).Opening = Round2(balance)
        /\ Last(rows).EMI = Round2(emi)
        /\ Last(rows).Interest = Round2(MulRate(balance, NextRate))
        /\ Last(rows).Principal = 0
        /\ Last(rows).PrepayTotal = 0
        /\ Last(rows).Closing = Round2(balance + MulRate(balance, NextRate))
        /\ Last(rows).Closing >= Last(rows).Opening
    /\ (month >= 1 /\ term # "settle") => Len(rows) = month

C1_Witness ==
    /\ Done
    /\ term = "settle"
    /\ Last(rows).Closing > Last(rows).Opening
    /\ Last(rows).Opening > 0

\* the rows the loop appends for its own month: all but a lookahead row
LoopRows == 1..(IF term = "settle" THEN Len(rows) - 1 ELSE Len(rows))

RowGap(row) ==
    row.Closing - Max(0, row.Opening - row.Principal - row.PrepayTotal)

\* C2 as stated: every row has closing balance
\* max(0, opening balance - principal component - prepay total).
C2_ClosingExact == \A i \in 1..Len(rows) : RowGap(rows[i]) = 0

\* C2, amended: in every row the loop appends for its own month the
\* closing balance is max(0, opening - principal - prepay total) to within
\* 0.02 (the columns are rounded one by one), and a lookahead row closes at
\* its opening balance plus its interest, to within 0.01.
C2_ClosingWithinRounding ==
    /\ \A i \in LoopRows : Abs(RowGap(rows[i])) <= 2 * Cent
    /\ term = "settle" =>
        Abs(Last(rows).Closing - Last(rows).Opening - Last(rows).Interest) <= Cent

C2_Witness ==
    /\ Done
    /\ term = "paid"
    /\ \E i \in 1..Len(rows) : rows[i].PrepayTotal > 0 /\ rows[i].Closing > 0
    /\ \E i \in 1..Len(rows) : RowGap(rows[i]) # 0

\* C3: the rows carry the months 1, 2, ..., k in order, the first row
\* opens at the principal and every later row at the closing balance of
\* the row before it.
C3_MonthsAndBalancesChain ==
    \A i \in 1..Len(rows) :
        /\ rows[i].Month = i
        /\ i = 1 => rows[i].Opening = P
        /\ i > 1 => rows[i].Opening = rows[i - 1].Closing

C3_Witness == Done /\ Len(rows) >= 3 /\ rows[2].PrepayTotal > 0

\* a run at one fixed rate: no schedule, no prepayment, a tenure of N >= 1
FixedRateRun ==
    /\ Done
    /\ rate_schedule = None
    /\ prepay_amount = 0
    /\ tenure_months >= 1

\* the installment calculate_emi gives for the loan
Nominal == calculate_emi(P, annual_rate, tenure_months)

\* C4 as stated: for a positive principal at a positive fixed rate and
\* with no prepayment the ledger ends at month N with a closing balance within 0.01 of zero and a
\* last installment that is not above the nominal one (as reported).
C4_EndsAtTenure ==
    (FixedRateRun /\ P > 0 /\ annual_rate > 0) =>
        /\ rows # <<>>
        /\ Last(rows).Month = tenure_months
        /\ Last(rows).Closing <= Cent
        /\ Last(rows).EMI <= Round2(Nominal)

\* C4, amended: such a ledger ends at month N whenever P / N is above the
\* 0.005 pay-off threshold; in every case it ends at month N or before,
\* never at a lookahead row, with the balance at or below the threshold,
\* so the last closing balance is within 0.01 of zero, and its last
\* installment is not above the nominal one (both as reported).
C4_EndsByTenure ==
    (FixedRateRun /\ P > 0 /\ annual_rate > 0) =>
        /\ term = "paid"
        /\ rows # <<>>
        /\ Last(rows).Month <= tenure_months
        /\ P > tenure_months * HalfCent => Last(rows).Month = tenure_months
        /\ balance <= HalfCent
        /\ Last(rows).Closing <= Cent
        /\ Last(rows).EMI <= Round2(Nominal)

C4_Witness ==
    /\ FixedRateRun
    /\ annual_rate > 0
    /\ tenure_months = MaxTenure
    /\ Len(rows) = tenure_months
    /\ rows[1].Interest > 0
    /\ Last(rows).EMI > 0
    /\ Last(rows).Closing = 0

\* C5 as stated: at a zero rate the installment is P / N, and with no
\* prepayment the ledger has N rows, each with principal component P / N
\* and interest 0.
C5_ZeroRateEqualRows ==
    (FixedRateRun /\ annual_rate = 0) =>
        /\ Nominal * tenure_months - P \in -tenure_months..tenure_months
        /\ Len(rows) = tenure_months
        /\ \A i \in 1..Len(rows) :
            /\ rows[i].Principal = Round2(Nominal)
            /\ rows[i].Interest = 0

\* C5, amended: at a zero rate the installment is P / N, and with no
\* prepayment the ledger has N rows whenever P / N is above the 0.005
\* pay-off threshold, and never more than N; all its rows have interest 0
\* and principal component P / N as reported, to within 0.01 (the last
\* digit of a row is that of its own rounding).
C5_ZeroRateRows ==
    (FixedRateRun /\ annual_rate = 0) =>
        /\ Nominal * tenure_months - P \in -tenure_months..tenure_months
        /\ Len(rows) <= tenure_months
        /\ P > tenure_months * HalfCent => Len(rows) = tenure_months
        /\ \A i \in 1..Len(rows) :
            /\ Abs(rows[i].Principal - Round2(Nominal)) <= Cent
            /\ rows[i].Interest = 0

C5_Witness ==
    /\ FixedRateRun
    /\ annual_rate = 0
    /\ tenure_months = MaxTenure
    /\ Len(rows) = tenure_months
    /\ Last(rows).Principal > 0
    /\ Last(rows).Closing = 0

---------------------------------------------------------------------------
(* Properties of the rate schedule *)

Normalized == pc \in {"normalized", "renormalized", "queried"}

\* the list handed to normalize_rate_schedule (empty for None)
RawList == IF rate_schedule = None THEN <<>> ELSE rate_schedule[1]

\* a well-formed entry: a dict whose month converts to an integer >= 1 and
\* whose rate converts to a number
WellFormed(ent) ==
    /\ ent.isdict
    /\ ent.month.k \in {"num", "str"}
    /\ ent.annual_rate.k \in {"num", "str"}
    /\ ent.month.v >= 1

\* the positions of the well-formed entries of month m in the input
WellFormedAt(m) ==
    {i \in 1..Len(RawList) : WellFormed(RawList[i]) /\ RawList[i].month.v = m}

WellFormedAll == {i \in 1..Len(RawList) : WellFormed(RawList[i])}

\* the month-1 entry was made up: the input has well-formed entries, none
\* of them at month 1
Synthesised == WellFormedAll # {} /\ WellFormedAt(1) = {}

\* the positions of the entries of month m in the output, a made-up first
\* entry left out
OutAt(m) ==
    {i \in 1..Len(rs) : rs[i].month.v = m /\ ~(Synthesised /\ i = 1)}

\* the k-th smallest element of a set of positions
RECURSIVE Nth(_, _)
Nth(S, k) ==
    LET least == CHOOSE x \in S : \A y \in S : x <= y
    IN  IF k = 1 THEN least ELSE Nth(S \ {least}, k - 1)

\* C6: normalize_rate_schedule is idempotent: applied to its own output it
\* returns that output, entry for entry.
C6_NormalizeIdempotent ==
    pc \in {"renormalized", "queried"} => renorm = rs

C6_Witness ==
    /\ pc = "renormalized"
    /\ Synthesised
    /\ Len(rs) >= 3
    /\ Len(RawList) > Len(rs) - 1
    /\ \E i \in 1..(Len(RawList) - 1) :
        /\ WellFormed(RawList[i])
        /\ WellFormed(RawList[i + 1])
        /\ RawList[i].month.v > RawList[i + 1].month.v

\* C7: the output of normalize_rate_schedule is sorted by month, has no
\* month below 1, holds every well-formed input entry (those of one month
\* all of them, in their input order) and nothing else but a month-1 entry
\* put in front, with the rate of the entry of the smallest month, when the
\* input has well-formed entries and none at month 1; it then begins at
\* month 1.  None or an empty input gives an empty schedule.
C7_NormalizeShape ==
    Normalized =>
        /\ \A i \in 1..Len(rs) : rs[i].isdict /\ rs[i].month.k = "num" /\ rs[i].month.v >= 1
        /\ \A i \in 1..(Len(rs) - 1) : rs[i].month.v <= rs[i + 1].month.v
        /\ \A m \in -1..MaxQueryMonth :
            /\ Cardinality(OutAt(m)) = Cardinality(WellFormedAt(m))
            /\ \A k \in 1..Cardinality(WellFormedAt(m)) :
                LET src == RawList[Nth(WellFormedAt(m), k)]
                    out == rs[Nth(OutAt(m), k)]
                IN  out = Entry(src.month.v, src.annual_rate.v)
        /\ Len(rs) = Cardinality(WellFormedAll) + (IF Synthesised THEN 1 ELSE 0)
        /\ rs # <<>> => rs[1].month.v = 1
        /\ Synthesised =>
            /\ rs[1].annual_rate = rs[2].annual_rate
            /\ \A i \in WellFormedAll : rs[2].month.v <= RawList[i].month.v
        /\ RawList = <<>> => rs = <<>>

C7_Witness ==
    /\ pc = "normalized"
    /\ Synthesised
    /\ \E i \in 1..Len(RawList) : RawList[i].isdict /\ RawList[i].month.v = -1
    /\ \E i, j \in WellFormedAll :
        /\ i < j
        /\ RawList[i].month.v = RawList[j].month.v
        /\ RawList[i].annual_rate.v # RawList[j].annual_rate.v

\* the entries of the schedule a query month has reached
Reached(m) == {i \in 1..Len(rs) : rs[i].month.v <= m}

\* C8: on a normalized schedule that is not empty, a query month m >= 1
\* gets the rate of the last entry, in sequence order, whose month is <= m,
\* never the fallback; month 1 gets the rate of the month-1 entry.  The
\* fallback is returned only for the empty schedule.
C8_LastEntryWins ==
    (pc = "queried" /\ qmonth >= 1) =>
        /\ rs # <<>> =>
            /\ Reached(qmonth) # {}
            /\ LET last == CHOOSE i \in Reached(qmonth) : \A j \in Reached(qmonth) : j <= i
               IN  /\ qrate = rs[last].annual_rate.v
                   /\ qmonth = 1 => rs[last].month.v = 1
            /\ qrate # annual_rate
        /\ rs = <<>> => qrate = annual_rate
        /\ qrate = annual_rate => rs = <<>>

C8_Witness ==
    /\ pc = "queried"
    /\ qmonth >= 2
    /\ \E i \in 1..(Len(rs) - 1) :
        /\ rs[i].month.v = rs[i + 1].month.v
        /\ rs[i].annual_rate.v # rs[i + 1].annual_rate.v
        /\ rs[i + 1].month.v <= qmonth
        /\ \A j \in (i + 2)..Len(rs) : rs[j].month.v > qmonth
        /\ qrate = rs[i + 1].annual_rate.v

---------------------------------------------------------------------------
(* Prepayment against no prepayment *)

\* the same call without the prepayment
WithoutPrepay == [In EXCEPT !.prepay_amount = 0, !.prepay_month = NoMonth]

Baseline == Run(WithoutPrepay, BeginState(WithoutPrepay))

\* a finished run in which a prepayment of the given mode was due
PrepaidRun(md) ==
    /\ Done
    /\ mode = md
    /\ prepay_amount > 0
    /\ prepay_month # NoMonth

\* C9 as stated: a keep_emi prepayment never makes the ledger longer than
\* that of the same loan without the prepayment.
C9_ShortenTenorNeverLonger ==
    PrepaidRun("keep_emi") =>
        compute_summary(rows).months <= compute_summary(Baseline.rows).months

\* C9, amended: a keep_emi prepayment never makes the ledger longer than
\* that of the same loan without the prepayment, provided the run without
\* the prepayment does not end at a lookahead row (which cuts it short
\* while the balance is still owed).
C9_ShortenTenorNeverLongerThanPaidOff ==
    (PrepaidRun("keep_emi") /\ Baseline.term # "settle") =>
        compute_summary(rows).months <= compute_summary(Baseline.rows).months

C9_Witness ==
    /\ PrepaidRun("keep_emi")
    /\ Baseline.term # "settle"
    /\ \E i \in 1..Len(rows) : rows[i].PrepayTotal > 0 /\ rows[i].Closing > 0
    /\ compute_summary(rows).months < compute_summary(Baseline.rows).months

\* the schedule has a single rate for all months
OneRate == \A i, j \in 1..Len(rs) : rs[i].annual_rate.v = rs[j].annual_rate.v

\* C10 as stated: a keep_tenure prepayment never raises the total
\* interest above that of the same loan without the prepayment.
C10_ReduceInstallmentNeverDearer ==
    PrepaidRun("keep_tenure") =>
        compute_summary(rows).total_interest
            <= compute_summary(Baseline.rows).total_interest

\* C10, amended: under a single rate for all months (no schedule, or a
\* schedule without a change of rate) a keep_tenure prepayment never raises
\* the total interest above that of the same loan without the prepayment.
C10_ReduceInstallmentNeverDearerAtOneRate ==
    (PrepaidRun("keep_tenure") /\ OneRate) =>
        compute_summary(rows).total_interest
            <= compute_summary(Baseline.rows).total_interest

C10_Witness ==
    /\ PrepaidRun("keep_tenure")
    /\ OneRate
    /\ rows # <<>>
    /\ Last(rows).Month = tenure_months
    /\ \E i \in 1..Len(rows) : rows[i].PrepayEMI > 0 /\ rows[i].Closing > 0
    /\ compute_summary(rows).total_interest
           < compute_summary(Baseline.rows).total_interest

---------------------------------------------------------------------------
(* The hybrid mode at its two ends *)

\* the ledger of the same call under another mode
LedgerUnder(md) == build_schedule_with_prepay([In EXCEPT !.mode = md])

\* C11: a hybrid call with fraction 0 gives, row for row and column for
\* column, the ledger of the same call in mode keep_emi, and with fraction 1
\* that of the same call in mode keep_tenure.
C11_HybridEnds ==
    (Done /\ mode = "hybrid") =>
        /\ hybrid_pct = 0 => rows = LedgerUnder("keep_emi")
        /\ hybrid_pct = 100 => rows = LedgerUnder("keep_tenure")

\* a hybrid run at fraction 0 or 1 whose prepayment left a balance, with a
\* row after it
C11_Witness ==
    /\ Done
    /\ mode = "hybrid"
    /\ hybrid_pct \in {0, 100}
    /\ \E i \in 1..Len(rows) :
        /\ rows[i].PrepayTotal > 0
        /\ rows[i].Closing > 0
        /\ i < Len(rows)
        /\ rows[i + 1].EMI # rows[1].EMI

---------------------------------------------------------------------------
(* The summary of a ledger *)

\* the sum of a sequence of numbers
RECURSIVE SumSeq(_, _)
SumSeq(q, n) == IF n = 0 THEN 0 ELSE SumSeq(q, n - 1) + q[n]

\* row by row: the interest, the principal paid + prepay total, and the
\* installment charged + prepay total
InterestByRow == [i \in 1..Len(rows) |-> rows[i].Interest]

PrincipalByRow == [i \in 1..Len(rows) |-> rows[i].Principal + rows[i].PrepayTotal]

PaidByRow == [i \in 1..Len(rows) |-> rows[i].EMI + rows[i].PrepayTotal]

\* C12: the summary of an empty ledger is all zeros; otherwise months is the
\* largest month of a row, total_interest the sum of the rows' interest,
\* total_principal the sum of principal paid + prepay total, and total_paid
\* the sum of installment charged + prepay total, over all the rows.
C12_Summary ==
    pc = "summarized" =>
        IF rows = <<>>
        THEN summary = [months |-> 0, total_interest |-> 0,
                        total_principal |-> 0, total_paid |-> 0]
        ELSE /\ \E i \in 1..Len(rows) : summary.months = rows[i].Month
             /\ \A i \in 1..Len(rows) : summary.months >= rows[i].Month
             /\ summary.total_interest = SumSeq(InterestByRow, Len(rows))
             /\ summary.total_principal = SumSeq(PrincipalByRow, Len(rows))
             /\ summary.total_paid = SumSeq(PaidByRow, Len(rows))

\* the summary of a ledger of several rows, one of them with a prepayment
C12_Witness ==
    /\ pc = "summarized"
    /\ Len(rows) >= 2
    /\ \E i \in 1..Len(rows) : rows[i].PrepayTotal > 0
    /\ summary.total_interest > 0

---------------------------------------------------------------------------
(* The fixed-installment loop *)

\* the interest due in the month the loop is about to run
InterestDue == MulRate(balance, get_rate_for_month(rs, month + 1, annual_rate))

\* C13: in the first month whose interest due on the opening balance is
\* not below the fixed installment the loop appends one row, with zero
\* principal paid and closing balance = opening balance + interest, and
\* ends, the balance having grown by the interest; in a month whose
\* interest is below the installment it appends a row that pays principal,
\* so that every earlier row had an installment above its interest; once
\* ended, the ledger gets no further row.
C13_NegativeAmortizationEnds ==
    [][/\ (pc = "loop" /\ fixed_emi <= InterestDue) =>
            /\ Len(rows') = Len(rows) + 1
            /\ SubSeq(rows', 1, Len(rows)) = rows
            /\ Last(rows').Month = month + 1
            /\ Last(rows').Opening = Round2(balance)
            /\ Last(rows').Interest = Round2(InterestDue)
            /\ Last(rows').Principal = 0
            /\ Last(rows').Closing = Round2(balance + InterestDue)
            /\ Abs(Last(rows').Closing
                     - (Last(rows').Opening + Last(rows').Interest)) <= Cent
            /\ balance' = balance + InterestDue
            /\ pc' = "done"
       /\ (pc = "loop" /\ fixed_emi > InterestDue) =>
            /\ Len(rows') = Len(rows) + 1
            /\ SubSeq(rows', 1, Len(rows)) = rows
            /\ balance' < balance
            /\ Last(rows').Principal = Round2(balance - balance')
            /\ Last(rows').Closing = Round2(balance')
       /\ pc = "done" => rows' = rows
      ]_vars

\* a run ended by a month of negative amortization, after a month that paid
\* principal
C13_Witness ==
    /\ term = "negam"
    /\ pc = "done"
    /\ Len(rows) >= 2
    /\ rows[1].Principal > 0
    /\ Last(rows).Principal = 0
    /\ Last(rows).Closing > Last(rows).Opening

---------------------------------------------------------------------------
(* Degenerate input *)

\* the installment computed before the loop
InitialEmi ==
    LET sched == IF rate_schedule = None THEN <<>>
                 ELSE normalize_rate_schedule(rate_schedule)
    IN  calculate_emi(P, get_rate_for_month(sched, 1, annual_rate), tenure_months)

\* C14: when the installment computed before the loop is <= 0 the call
\* returns an empty ledger without running a month, whatever the schedule
\* and the prepayment are.
C14_DegenerateInputEmpty ==
    (pc # "start" /\ InitialEmi <= 0) =>
        /\ pc \in {"done", "summarized"}
        /\ term = "empty"
        /\ rows = <<>>
        /\ month = 0

\* a returned call with a tenure of 0 months, a positive principal, a
\* schedule and a prepayment
C14_Witness ==
    /\ pc = "done"
    /\ InitialEmi <= 0
    /\ P > HalfCent
    /\ rate_schedule # None
    /\ prepay_amount > 0
    /\ prepay_month = 1

---------------------------------------------------------------------------
(* The simulator's schedule *)

\* the base schedule the simulator starts from
SimBase == IF rs = <<>> THEN <<Entry(1, annual_rate)>> ELSE rs

\* C15: the simulator's schedule resolves to sim_new_rate for every month
\* from sim_month on, whatever the base schedule holds at or after that
\* month, and to the base schedule's rate for every month before it.
C15_SimulatorOverrides ==
    pc = "simulated" =>
        \A m \in 1..(MaxQueryMonth + 1) :
            get_rate_for_month(sim_rs, m, annual_rate)
                = IF m >= sim_month THEN sim_new_rate
                  ELSE get_rate_for_month(SimBase, m, annual_rate)

\* a simulator month with a base entry at it, one after it and a change
\* of rate before it
C15_Witness ==
    /\ pc = "simulated"
    /\ sim_month >= 2
    /\ \E i \in 1..Len(rs) : rs[i].month.v = sim_month
    /\ \E i \in 1..Len(rs) :
        rs[i].month.v > sim_month /\ rs[i].annual_rate.v # sim_new_rate
    /\ get_rate_for_month(rs, sim_month - 1, annual_rate) # sim_new_rate

---------------------------------------------------------------------------
(* Recomputing the installment at a change of rate *)

\* month m > 1 has an entry in the schedule and the recompute flag is set
RateChangeDue(m) ==
    /\ auto_recompute_on_rate_change
    /\ m > 1
    /\ \E i \in 1..Len(rs) : rs[i].month.v = m

\* the rate the schedule resolves for month m
RateOf(m) == get_rate_for_month(rs, m, annual_rate)

\* the installment for a balance over the tenure remaining at the start of
\* month m, at a given annual rate
FreshInstallment(bal, m, rate) ==
    calculate_emi(bal, rate, Max(1, tenure_months - m + 1))

\* what a row of month m reports as charged when the installment is
\* recomputed from the balance at the start of the month
ChargedFresh(bal, m) ==
    LET fresh == FreshInstallment(bal, m, RateOf(m))
        interest == MulRate(bal, RateOf(m))
    IN  Round2(IF fresh - interest > bal THEN interest + bal ELSE fresh)

PrepayMayRecompute(m) ==
    prepay_amount > 0 /\ prepay_month = m /\ mode \in {"keep_tenure", "hybrid"}

\* C17 as stated: the installment recomputed at a change of rate in month
\* m > 1 is computed at the rate the schedule resolves for month m - 1.
C17_RecomputedAtPreviousRate ==
    [][(pc = "loop" /\ RateChangeDue(month + 1) /\ ~PrepayMayRecompute(month + 1)) =>
        emi' = FreshInstallment(balance, month + 1, RateOf(month))
      ]_vars

\* C17, amended: the installment recomputed at a change of rate in month
\* m > 1 is computed at the rate the schedule resolves for month m itself,
\* the rate newly in force.
C17_RecomputedAtNewRate ==
    [][(pc = "loop" /\ RateChangeDue(month + 1) /\ ~PrepayMayRecompute(month + 1)) =>
        emi' = FreshInstallment(balance, month + 1, RateOf(month + 1))
      ]_vars

\* a row at a change to another rate, charged another installment than
\* the row before it, in a run without a prepayment
C17_Witness ==
    /\ Done
    /\ auto_recompute_on_rate_change
    /\ prepay_amount = 0
    /\ \E i \in 2..Len(rows) :
        /\ RateChangeDue(rows[i].Month)
        /\ rows[i].Rate # rows[i - 1].Rate
        /\ rows[i].Principal > 0
        /\ rows[i].EMI # rows[i - 1].EMI

---------------------------------------------------------------------------
(* The prepayment *)

\* the installment the loop charges in the month it is about to run
InstallmentDue ==
    IF RateChangeDue(month + 1)
    THEN FreshInstallment(balance, month + 1, RateOf(month + 1))
    ELSE emi

\* C of the month the loop is about to run: the opening balance less the
\* principal component
BeforePrepay == balance - Min(InstallmentDue - InterestDue, balance)

\* the hybrid fraction, in percent, clamped to [0, 1]
ClampedPct == Max(0, Min(100, hybrid_pct))

\* the tenor part of a prepayment of the amount A = prepay_amount when C
\* is left to pay
TenorPart(C) ==
    IF mode = "keep_emi" THEN Min(prepay_amount, C)
    ELSE IF mode = "keep_tenure" THEN 0
    ELSE Min(RoundDiv(prepay_amount * (100 - ClampedPct), 100), C)

\* its EMI part
EmiPart(C) ==
    IF mode = "keep_emi" THEN 0
    ELSE IF mode = "keep_tenure" THEN Min(prepay_amount, C)
    ELSE Min(RoundDiv(prepay_amount * ClampedPct, 100), C - TenorPart(C))

\* C18: only the row of the trigger month can have a non-zero prepayment
\* column; in that row the tenor part and the EMI part are those of the
\* mode (keep_emi: min(A, C) and 0; keep_tenure: 0 and min(A, C); hybrid:
\* min((1 - f) A, C) first, then min(f A, C - tenor part)), the total is
\* their sum and is at most min(A, C), and it comes off the balance; all
\* three columns are 0 in every other row.
C18_OnePrepayment ==
    [][pc = "loop" =>
        LET row == rows'[Len(rows) + 1]
            C == BeforePrepay
        IN  /\ IF prepay_amount > 0 /\ prepay_month = month + 1
               THEN /\ row.PrepayTenor = Round2(TenorPart(C))
                    /\ row.PrepayEMI = Round2(EmiPart(C))
                    /\ row.PrepayTotal = Round2(TenorPart(C) + EmiPart(C))
                    /\ TenorPart(C) + EmiPart(C) <= Min(prepay_amount, C)
                    /\ balance' = C - (TenorPart(C) + EmiPart(C))
               ELSE /\ row.PrepayTenor = 0
                    /\ row.PrepayEMI = 0
                    /\ row.PrepayTotal = 0
                    /\ balance' = C
            /\ \A i \in 1..Len(rows') :
                   (rows'[i].PrepayTenor # 0 \/ rows'[i].PrepayEMI # 0
                        \/ rows'[i].PrepayTotal # 0)
                     => /\ rows'[i].Month = prepay_month
                        /\ \A j \in 1..Len(rows') :
                              rows'[j].Month = prepay_month => j = i
      ]_vars

\* a hybrid prepayment with both parts, cut down to the balance, and one
\* that left a balance with rows after it
C18_Witness ==
    /\ Done
    /\ mode = "hybrid"
    /\ hybrid_pct = 50
    /\ \E i \in 1..Len(rows) :
        /\ rows[i].PrepayTenor > 0
        /\ rows[i].PrepayEMI > 0
        /\ rows[i].PrepayEMI < rows[i].PrepayTenor
        /\ rows[i].PrepayTotal < prepay_amount
        /\ rows[i].Closing = 0
        /\ i > 1

---------------------------------------------------------------------------
(* The installment after a prepayment *)

\* C19: in a run of mode keep_emi without the recompute flag the
\* installment stays the initial one for the whole run: every row is
\* charged it, except a last row whose principal was clamped to its
\* opening balance, which is charged less.
C19_KeepEmiKeepsInstallment ==
    (pc # "start" /\ mode = "keep_emi" /\ ~auto_recompute_on_rate_change) =>
        /\ emi = InitialEmi
        /\ \A i \in 1..Len(rows) :
            \/ rows[i].EMI = Round2(InitialEmi)
            \/ /\ i = Len(rows)
               /\ rows[i].Principal = rows[i].Opening
               /\ rows[i].Closing = 0
               /\ rows[i].EMI <= Round2(InitialEmi)

\* a keep_emi prepayment that left a balance, rows after it, and a last
\* row charged less than the installment
C19_Witness ==
    /\ Done
    /\ mode = "keep_emi"
    /\ ~auto_recompute_on_rate_change
    /\ \E i \in 1..Len(rows) :
        /\ rows[i].PrepayTenor > 0
        /\ rows[i].Closing > 0
        /\ i < Len(rows)
    /\ Last(rows).EMI < Round2(InitialEmi)
    /\ Last(rows).EMI > 0

---------------------------------------------------------------------------
(* A keep_tenure prepayment keeps the term *)

\* the locals of the call at the end of month m (or at its return, if that
\* comes first)
RECURSIVE StateAt(_, _, _)
StateAt(in, s, m) ==
    IF s.pc = "done" \/ s.month >= m THEN s ELSE StateAt(in, Step(in, s), m)

AfterPrepay == StateAt(In, BeginState(In), prepay_month)

\* a finished run at a fixed rate with a keep_tenure prepayment in a month
\* before the last that left a positive balance
KeepTenureRun ==
    /\ Done
    /\ rate_schedule = None
    /\ mode = "keep_tenure"
    /\ prepay_amount > 0
    /\ prepay_month >= 1
    /\ prepay_month < tenure_months
    /\ AfterPrepay.month = prepay_month
    /\ AfterPrepay.balance > 0

\* the installment for what the prepayment left, over the months left
RecomputedForRest ==
    calculate_emi(AfterPrepay.balance, annual_rate,
                  Max(1, tenure_months - prepay_month))

\* C20 as stated: at a fixed rate a keep_tenure prepayment in a month
\* m < N that leaves a positive balance has the installment recomputed for
\* that balance over max(1, N - m) months, and the ledger still ends at
\* month N, as that of the run without the prepayment does.
C20_KeepTenureEndsAtTenure ==
    KeepTenureRun =>
        /\ AfterPrepay.emi = RecomputedForRest
        /\ Last(rows).Month = tenure_months
        /\ compute_summary(rows).months = compute_summary(Baseline.rows).months

\* C20, amended: the installment is recomputed so; the ledger ends at
\* month N, as that of the run without the prepayment does, when the
\* balance left, spread over the N - m months left, is above the 0.005
\* pay-off threshold a month; otherwise it ends at month N or before.
C20_KeepTenureEndsByTenure ==
    KeepTenureRun =>
        /\ AfterPrepay.emi = RecomputedForRest
        /\ Last(rows).Month <= tenure_months
        /\ AfterPrepay.balance > (tenure_months - prepay_month) * HalfCent =>
               /\ Last(rows).Month = tenure_months
               /\ compute_summary(rows).months
                      = compute_summary(Baseline.rows).months

\* such a run at a positive rate, ending at month N with lower
\* installments after the prepayment
C20_Witness ==
    /\ KeepTenureRun
    /\ annual_rate > 0
    /\ AfterPrepay.balance > (tenure_months - prepay_month) * HalfCent
    /\ Last(rows).Month = tenure_months
    /\ rows[prepay_month].PrepayEMI > 0
    /\ rows[prepay_month + 1].EMI < rows[1].EMI
    /\ Last(rows).Closing = 0

---------------------------------------------------------------------------
(* months_for_fixed_emi against the fixed-installment ledger *)

\* the ledger's rate is one rate, the one months_for_fixed_emi is given
FixedRateFE == \A i \in 1..Len(rs) : rs[i].annual_rate.v = annual_rate

\* the ledger is a single row, written by the negative-amortization branch
NegAmInMonthOne == term = "negam" /\ Len(rows) = 1

\* the first month's interest r * P
FirstInterest == MulRate(P, annual_rate)

\* months_for_fixed_emi has answered and the ledger's first pass is over
AnsweredAfterMonthOne ==
    /\ months_fixed # Uncalled
    /\ FixedRateFE
    /\ pc \in {"loop", "done"}
    /\ (month = 1 \/ pc = "done")

---------------------------------------------------------------------------
(* Conservation of the principal *)

\* the interest the lookahead row adds to the balance
LookaheadInterest == MulRate(balance, NextRate)

\* the amounts compute_summary adds up into total_principal: a Principal Paid
\* for every row and one prepayment
RoundedAmounts == Len(rows) + 1

\* C23 as stated: in every row the cumulative principal paid plus the
\* closing balance is P, the cumulative principal never exceeds P, and a
\* ledger that ends with closing balance 0 has total_principal = P.
C23_PrincipalConserved ==
    /\ \A i \in 1..Len(rows) :
         /\ rows[i].CumPrincipal + rows[i].Closing = P
         /\ rows[i].CumPrincipal <= P
    /\ (pc = "summarized" /\ rows # <<>> /\ Last(rows).Closing = 0) =>
         summary.total_principal = P

\* C23: the loop's running sum of principal and prepayments plus its
\* balance is P after every month, and the sum never exceeds P.  A row of
\* the loop shows the two rounded to the cent, so that they add up to P to
\* within a cent; the lookahead row shows the balance grown by a month's
\* interest, so that its two columns add up to P plus that interest.  The
\* total_principal of a ledger that ends with closing balance 0 adds up
\* rounded amounts and leaves out a last balance of at most 0.005: it is P
\* to within half a cent for each amount and for that balance.
C23_PrincipalConservedBeforeRounding ==
    /\ pc # "start" =>
         /\ cum_principal + balance = P
         /\ cum_principal >= 0
         /\ cum_principal <= P
    /\ \A i \in 1..Len(rows) : rows[i].CumPrincipal <= P
    /\ \A i \in LoopRows :
         Abs(rows[i].CumPrincipal + rows[i].Closing - P) <= Cent
    /\ (Done /\ term = "settle") =>
         /\ Last(rows).CumPrincipal = Round2(cum_principal)
         /\ Last(rows).Closing = Round2(balance + LookaheadInterest)
         /\ Abs(Last(rows).CumPrincipal + Last(rows).Closing
                  - (P + LookaheadInterest)) <= Cent
    /\ (pc = "summarized" /\ rows # <<>> /\ Last(rows).Closing = 0) =>
         /\ balance <= HalfCent
         /\ Abs(summary.total_principal - P) <= HalfCent * (RoundedAmounts + 1)

\* a ledger with a prepayment, paid off, whose rows each conserve the
\* principal and whose total_principal is summed
C23_Witness ==
    /\ pc = "summarized"
    /\ term = "paid"
    /\ Len(rows) >= 2
    /\ \E i \in 1..Len(rows) : rows[i].PrepayTotal > 0 /\ rows[i].Closing > 0
    /\ Last(rows).Closing = 0
    /\ Last(rows).CumPrincipal = P
    /\ summary.total_principal > 0

---------------------------------------------------------------------------
(* Negative amortization in the ledger *)

\* detect_negative_amortization's test of a row
NegAmortized(row) == row.Principal <= 0 /\ row.Closing >= row.Opening

---------------------------------------------------------------------------
(* The bounds of the loops *)

\* the bound of the loop of the function that runs
LoopBound ==
    IF call = "build_schedule_with_prepay" THEN max_iter(In) ELSE max_months

\* the loop never makes more passes than its bound, and the pass that
\* reaches the bound is the last
StopsAtBound ==
    /\ month <= LoopBound
    /\ pc = "loop" => (month < LoopBound /\ balance > HalfCent)
    /\ month = LoopBound => pc = "done"
    /\ term = "maxiter" => (pc = "done" /\ month = LoopBound /\ balance > HalfCent)

\* C21 as stated: neither loop makes more passes than its bound, max_iter =
\* max(tenure_months * 10, 10000) or max_months, and no row of either ledger
\* carries a month above the bound.
C21_NoMonthBeyondBound ==
    /\ StopsAtBound
    /\ \A i \in 1..Len(rows) : rows[i].Month <= LoopBound

\* C21: neither loop makes more passes than its bound, max_iter =
\* max(tenure_months * 10, 10000) or max_months: a pass starts only below
\* the bound, and the pass that reaches it returns.  A row the loop writes
\* carries the number of the pass.  No row of build_schedule_fixed_emi
\* carries a month above max_months.  In build_schedule_with_prepay the
\* lookahead row carries the month after its pass, so that after the pass
\* max_iter it carries max_iter + 1: no row carries a month above
\* max_iter + 1, only a lookahead row carries max_iter + 1, and the whole
\* ledger, of which `rows' is the end, has a row for each month up to there.
C21_StopsAtBound ==
    /\ StopsAtBound
    /\ call = "build_schedule_fixed_emi" =>
         /\ Len(rows) = month
         /\ \A i \in 1..Len(rows) : rows[i].Month = i
    /\ call = "build_schedule_with_prepay" =>
         /\ rows # <<>>
         /\ \A i \in 1..Len(rows) : rows[i].Month = rows[1].Month + i - 1
         /\ Last(rows).Month = IF term = "settle" THEN month + 1 ELSE month
         /\ Last(rows).Month <= max_iter(In) + 1
         /\ Last(rows).Month = max_iter(In) + 1 =>
              (term = "settle" /\ Last(rows).Principal = 0)
         /\ pc = "done" =>
              LET ledger == Ledger(In)
              IN  /\ Len(ledger) = Last(rows).Month
                  /\ \A i \in 1..Len(ledger) : ledger[i].Month = i
                  /\ rows = SubSeq(ledger, rows[1].Month, Len(ledger))

\* a call of build_schedule_with_prepay that the bound ended: max_iter
\* passes, a balance still to pay, and a last row for month max_iter
C21_Witness ==
    /\ call = "build_schedule_with_prepay"
    /\ pc = "done"
    /\ term = "maxiter"
    /\ month = max_iter(In)
    /\ month > MinMaxIter
    /\ balance > HalfCent
    /\ Len(rows) > LastPasses
    /\ Last(rows).Month = max_iter(In)
    /\ Last(rows).Principal > 0

=============================================================================
